---- MODULE Spec2Model ----
(***************************************************************************)
(* AccountManager and ProfileManager of base-client-js as a state machine. *)
(* Every promise callback (.then handler, Promise executor) is one atomic  *)
(* step; calls in flight interleave at those steps.                        *)
(***************************************************************************)
EXTENDS Integers, Sequences, FiniteSets, TLC

\* ------------------------------------------------------------------ bounds
MaxCalls == 2        \* calls that may be in flight at the same time
MaxFields == 2       \* entries of a Map given to updateData / carried by an envelope
MaxStarted == 3      \* calls made in one behaviour

\* ------------------------------------------------------------------ values
Phrases == {"alisa", "bob"}
Messages == {"hello"}
FieldNames == {"name", "Name", "email"}
FieldOrder == <<"name", "Name", "email">>
Text(i) == IF i % 2 = 1 THEN "x" ELSE "y"   \* the cleartext of the i-th entry of an input
NoKey == "nokey"

\* KeyPairHelper.createKeyPair(phrase).publicKey: deterministic and injective
PublicKey(p) == IF p = "alisa" THEN "pkA" ELSE IF p = "bob" THEN "pkB" ELSE ""
PublicKeys == {PublicKey(p) : p \in Phrases}

\* String.prototype.toLowerCase on the field names of the model
Lower(f) == IF f = "Name" THEN "name" ELSE f

\* a string value: cleartext, an AES ciphertext, or a per-field password
Clear(t) == [kind |-> "clear", val |-> t, key |-> NoKey, field |-> "", iv |-> 0]
Password(k, f) == [kind |-> "pass", val |-> "", key |-> k, field |-> f, iv |-> 0]
Cipher(t, pass, iv) ==
    [kind |-> "cipher", val |-> t, key |-> pass.key, field |-> pass.field, iv |-> iv]
NoValue == [kind |-> "none", val |-> "", key |-> NoKey, field |-> "", iv |-> 0]

\* ------------------------------------------------------------------ Map<string, string>
\* a JS Map: entries <<key, value>> in insertion order, keys distinct
EmptyMap == << >>
MapHas(m, k) == \E i \in 1..Len(m) : m[i][1] = k
MapGet(m, k) == m[CHOOSE i \in 1..Len(m) : m[i][1] = k][2]
MapSet(m, k, v) ==
    IF MapHas(m, k)
    THEN [i \in 1..Len(m) |-> IF m[i][1] = k THEN <<k, v>> ELSE m[i]]
    ELSE Append(m, <<k, v>>)
MapKeys(m) == {m[i][1] : i \in 1..Len(m)}

\* ------------------------------------------------------------------ Account
Signature(k, msg) == [by |-> k, msg |-> msg]
NoSig == Signature(NoKey, "")
Account(pk) == [publicKey |-> pk, message |-> "", sig |-> NoSig]
EmptyAccount == Account("")

\* ------------------------------------------------------------------ key helper and ciphers
\* MessageEncrypt.generatePasswordForFiled: from the helper's private key and the
\* lowercased field name; without a key pair the derivation throws
generatePasswordForFiled(kp, fieldName) ==
    IF kp = NoKey THEN [ok |-> FALSE, val |-> NoValue]
    ELSE [ok |-> TRUE, val |-> Password(kp, Lower(fieldName))]

\* CryptoUtils.encryptAes256(value, pass): salted, so the salt iv is part of the result
encryptAes256(value, pass, iv) == [ok |-> TRUE, val |-> Cipher(value.val, pass, iv)]

\* CryptoUtils.decryptAes256(ciphertext, pass): throws unless pass is the password the
\* ciphertext was made with
decryptAes256(c, pass) ==
    IF c.kind = "cipher" /\ pass.kind = "pass" /\ c.key = pass.key /\ c.field = pass.field
    THEN [ok |-> TRUE, val |-> Clear(c.val)]
    ELSE [ok |-> FALSE, val |-> NoValue]

\* MessageDecrypt.decryptMessage(senderPk, encrypted): only the key pair the envelope
\* is addressed to opens it
decryptMessage(kp, env) ==
    IF kp # NoKey /\ env.to = PublicKey(kp)
    THEN [ok |-> TRUE, val |-> env.payload]
    ELSE [ok |-> FALSE, val |-> EmptyMap]

\* MessageSigner.signMessage(message): signs with the helper's private key
signMessage(kp, msg) == Signature(kp, msg)

\* ------------------------------------------------------------------ ProfileManager.prepareData
Thrown(error) == [ok |-> FALSE, map |-> EmptyMap, error |-> error]

RECURSIVE prepareLoop(_, _, _, _, _, _)
prepareLoop(data, i, encrypt, kp, iv, result) ==
    IF i > Len(data) THEN [ok |-> TRUE, map |-> result, error |-> "none"]
    ELSE LET key == data[i][1]
             value == data[i][2]
             pass == generatePasswordForFiled(kp, key)
             changedValue == IF encrypt THEN encryptAes256(value, pass.val, iv)
                             ELSE decryptAes256(value, pass.val)
         IN IF ~pass.ok THEN Thrown("DerivationError")
            ELSE IF ~changedValue.ok THEN Thrown("DecryptionError")
            ELSE prepareLoop(data, i + 1, encrypt, kp, iv,
                             MapSet(result, Lower(key), changedValue.val))

\* prepareData with result.set(key, changedValue): the name is not lowercased
RECURSIVE prepareLoopRawKeys(_, _, _, _, _, _)
prepareLoopRawKeys(data, i, encrypt, kp, iv, result) ==
    IF i > Len(data) THEN [ok |-> TRUE, map |-> result, error |-> "none"]
    ELSE LET pass == generatePasswordForFiled(kp, data[i][1])
             changedValue == IF encrypt THEN encryptAes256(data[i][2], pass.val, iv)
                             ELSE decryptAes256(data[i][2], pass.val)
         IN IF ~pass.ok THEN Thrown("DerivationError")
            ELSE IF ~changedValue.ok THEN Thrown("DecryptionError")
            ELSE prepareLoopRawKeys(data, i + 1, encrypt, kp, iv,
                                    MapSet(result, data[i][1], changedValue.val))
prepareDataRawKeys(data, encrypt, kp, iv) ==
    prepareLoopRawKeys(data, 1, encrypt, kp, iv, EmptyMap)

\* prepareData with changedValue = value: the cipher is never called
RECURSIVE prepareLoopPlain(_, _, _)
prepareLoopPlain(data, i, result) ==
    IF i > Len(data) THEN [ok |-> TRUE, map |-> result, error |-> "none"]
    ELSE prepareLoopPlain(data, i + 1, MapSet(result, Lower(data[i][1]), data[i][2]))
prepareDataPlain(data, encrypt, kp, iv) == prepareLoopPlain(data, 1, EmptyMap)

\* prepareData with a try/catch around each field: a field that fails is left out
RECURSIVE prepareLoopSkipFailed(_, _, _, _, _, _)
prepareLoopSkipFailed(data, i, encrypt, kp, iv, result) ==
    IF i > Len(data) THEN [ok |-> TRUE, map |-> result, error |-> "none"]
    ELSE LET pass == generatePasswordForFiled(kp, data[i][1])
             changedValue == IF encrypt THEN encryptAes256(data[i][2], pass.val, iv)
                             ELSE decryptAes256(data[i][2], pass.val)
         IN prepareLoopSkipFailed(data, i + 1, encrypt, kp, iv,
                IF pass.ok /\ changedValue.ok
                THEN MapSet(result, Lower(data[i][1]), changedValue.val) ELSE result)
prepareDataSkipFailed(data, encrypt, kp, iv) ==
    prepareLoopSkipFailed(data, 1, encrypt, kp, iv, EmptyMap)

\* prepareData with a cipher that draws no salt: equal input, equal ciphertext
prepareDataNoSalt(data, encrypt, kp, iv) == prepareLoop(data, 1, encrypt, kp, 0, EmptyMap)

prepareData(data, encrypt, kp, iv) == prepareLoop(data, 1, encrypt, kp, iv, EmptyMap)

\* ------------------------------------------------------------------ ProfileManager.getAuthorizedData, the forEach
\* the forEach with result.set(key, data): the stored value, not decrypted
RECURSIVE authorizedLoopNoDecrypt(_, _, _, _)
authorizedLoopNoDecrypt(arrayResponse, recipientData, i, result) ==
    IF i > Len(arrayResponse) THEN result
    ELSE LET key == arrayResponse[i][1]
         IN authorizedLoopNoDecrypt(arrayResponse, recipientData, i + 1,
                IF MapHas(recipientData, key)
                THEN MapSet(result, key, MapGet(recipientData, key)) ELSE result)

\* the forEach with a cipher that returns an empty string instead of throwing
RECURSIVE authorizedLoopKeepFailed(_, _, _, _)
authorizedLoopKeepFailed(arrayResponse, recipientData, i, result) ==
    IF i > Len(arrayResponse) THEN result
    ELSE LET key == arrayResponse[i][1]
             d == decryptAes256(MapGet(recipientData, key), arrayResponse[i][2])
         IN authorizedLoopKeepFailed(arrayResponse, recipientData, i + 1,
                IF MapHas(recipientData, key)
                THEN MapSet(result, key, IF d.ok THEN d.val ELSE Clear("")) ELSE result)

RECURSIVE authorizedLoop(_, _, _, _)
authorizedLoop(arrayResponse, recipientData, i, result) ==
    IF i > Len(arrayResponse) THEN result
    ELSE LET key == arrayResponse[i][1]
             value == arrayResponse[i][2]
         IN IF MapHas(recipientData, key)
            THEN LET d == decryptAes256(MapGet(recipientData, key), value)
                 IN authorizedLoop(arrayResponse, recipientData, i + 1,
                                   IF d.ok THEN MapSet(result, key, d.val) ELSE result)
            ELSE authorizedLoop(arrayResponse, recipientData, i + 1, result)

\* ------------------------------------------------------------------ inputs
Calls == 1..MaxCalls
StoreKeys == PublicKeys \cup {""}

\* Maps with distinct keys, in every insertion order, up to MaxFields entries
KeySeqs == {ks \in UNION {[1..n -> FieldNames] : n \in 0..MaxFields} :
               \A i, j \in 1..Len(ks) : i # j => ks[i] # ks[j]}
ClearVaults == {[i \in 1..Len(ks) |-> <<ks[i], Clear(Text(i))>>] : ks \in KeySeqs}

\* envelope payloads: a JSON object field name -> password; each password is some
\* identity's password for that field
Payloads == UNION {{[i \in 1..Len(ks) |-> <<ks[i], Password(os[i], Lower(ks[i]))>>] :
                       os \in [1..Len(ks) -> Phrases]} :
                   ks \in {k \in KeySeqs : \A i, j \in 1..Len(k) : i < j =>
                               (CHOOSE n \in 1..3 : FieldOrder[n] = k[i])
                                 < (CHOOSE n \in 1..3 : FieldOrder[n] = k[j])}}
Envelopes == [to : PublicKeys, payload : Payloads]

\* the vault one identity wrote from another client before this one starts
StoredOwner == "bob"
StoredBefore == <<<<"name", Clear("x")>>, <<"email", Clear("y")>>>>

\* ------------------------------------------------------------------ state
VARIABLES
    keyPair,              \* the KeyPairHelper's key pair (the phrase it was derived from)
    authAccountBehavior,  \* the BehaviorSubject's current value
    account,              \* ProfileManager.account
    clientData,           \* the ClientDataRepository: public key -> Map
    origin,               \* history: the cleartext Map each stored Map was prepared from
    ivCounter,            \* salts drawn so far
    started,              \* calls made so far
    calls                 \* the calls in flight and their promises

vars == <<keyPair, authAccountBehavior, account, clientData, origin, ivCounter,
          started, calls>>

IdleCall ==
    [op |-> "idle", pc |-> "idle", phrase |-> NoKey, message |-> "",
     acct |-> EmptyAccount, sig |-> NoSig, pk |-> "", data |-> EmptyMap,
     envTo |-> "", key |-> NoKey, src |-> EmptyMap,
     raw |-> EmptyMap, result |-> EmptyMap, returned |-> EmptyAccount,
     status |-> "pending", error |-> "none", nexts |-> 0, writes |-> 0]

\* the managers right after construction; the remote store already holds the vault
\* that one identity wrote from another client
Init ==
    /\ keyPair = NoKey
    /\ authAccountBehavior = EmptyAccount
    /\ account = EmptyAccount
    /\ origin = [pk \in StoreKeys |->
                    IF pk = PublicKey(StoredOwner) THEN StoredBefore ELSE EmptyMap]
    /\ clientData = [pk \in StoreKeys |->
                        IF pk = PublicKey(StoredOwner)
                        THEN prepareData(StoredBefore, TRUE, StoredOwner, 0).map
                        ELSE EmptyMap]
    /\ ivCounter = 0
    /\ started = 0
    /\ calls = [c \in Calls |-> IdleCall]

\* a settled call is handed to its caller before anything else runs; a call takes the
\* first free place
NoneSettled == \A d \in Calls : calls[d].pc # "done"
Idle(c) ==
    /\ calls[c].pc = "idle"
    /\ started < MaxStarted
    /\ NoneSettled
    /\ \A d \in Calls : d < c => calls[d].pc # "idle"
At(c, op, pc) == calls[c].op = op /\ calls[c].pc = pc /\ NoneSettled
Settle(call, status, error) == [call EXCEPT !.pc = "done", !.status = status, !.error = error]

\* ------------------------------------------------------------------ AccountManager
\* a subscriber that keeps the account it already has
onChangeAccountKeepsFirst(old, new) == IF old = EmptyAccount THEN new ELSE old

\* ProfileManager.onChangeAccount, the subscriber of authAccountBehavior
onChangeAccount(old, new) == new

\* the first link of registration / checkAccount / unsubscribe:
\* keyPairCreator.createKeyPair(mnemonicPhrase).then(this.generateAccount)
createKeyPair(c, op, mnemonicPhrase, message) ==
    /\ Idle(c)
    /\ keyPair' = mnemonicPhrase
    /\ calls' = [calls EXCEPT ![c] =
                    [IdleCall EXCEPT !.op = op, !.pc = "repo", !.phrase = mnemonicPhrase,
                                     !.message = message,
                                     !.acct = Account(PublicKey(mnemonicPhrase))]]
    /\ started' = started + 1
    /\ UNCHANGED <<authAccountBehavior, account, clientData, origin, ivCounter>>

registration(c) ==
    \E p \in Phrases, m \in Messages : createKeyPair(c, "registration", p, m)

checkAccount(c) ==
    \E p \in Phrases, m \in Messages : createKeyPair(c, "checkAccount", p, m)

unsubscribe(c) ==
    \E p \in Phrases : createKeyPair(c, "unsubscribe", p, "")

\* onGetAccount up to its .then: messageSigner.signMessage(message) is called now,
\* with whatever key pair the helper holds; the signer may fail
onGetAccount(call, kp, signed) ==
    IF signed
    THEN [call EXCEPT !.pc = "publish", !.sig = signMessage(kp, call.message)]
    ELSE Settle(call, "rejected", "SignError")

\* the authority answers accountRepository.registration(account); on success the
\* handler account => this.onGetAccount(account, message) runs
registrationReply(c) ==
    /\ At(c, "registration", "repo")
    /\ \E accepted, signed \in BOOLEAN :
          calls' = [calls EXCEPT ![c] =
                       IF accepted THEN onGetAccount(calls[c], keyPair, signed)
                       ELSE Settle(calls[c], "rejected", "RegistrationError")]
    /\ UNCHANGED <<keyPair, authAccountBehavior, account, clientData, origin, ivCounter,
                   started>>

\* getAccount that publishes the account before the authority has confirmed it
getAccountPublishFirst(c) ==
    /\ At(c, "checkAccount", "repo")
    /\ \E found, signed \in BOOLEAN :
          /\ calls' = [calls EXCEPT ![c] =
                          IF found THEN onGetAccount(calls[c], keyPair, signed)
                          ELSE Settle(calls[c], "rejected", "NotFoundError")]
          /\ authAccountBehavior' = calls[c].acct
          /\ account' = onChangeAccount(account, calls[c].acct)
    /\ UNCHANGED <<keyPair, clientData, origin, ivCounter, started>>

\* getAccount: the authority answers accountRepository.checkAccount(account)
getAccount(c) ==
    /\ At(c, "checkAccount", "repo")
    /\ \E found, signed \in BOOLEAN :
          calls' = [calls EXCEPT ![c] =
                       IF found THEN onGetAccount(calls[c], keyPair, signed)
                       ELSE Settle(calls[c], "rejected", "NotFoundError")]
    /\ UNCHANGED <<keyPair, authAccountBehavior, account, clientData, origin, ivCounter,
                   started>>

\* onGetAccount without account.message = message
fillAccountNoMessage(acct, message, sig) == [acct EXCEPT !.sig = sig]

\* account.message = message; account.sig = sig
fillAccount(acct, message, sig) == [acct EXCEPT !.message = message, !.sig = sig]

\* the .then of onGetAccount: fill in the account, publish it, resolve
onGetAccountThen(c) ==
    /\ calls[c].pc = "publish"
    /\ NoneSettled
    /\ LET published == fillAccount(calls[c].acct, calls[c].message, calls[c].sig)
       IN /\ authAccountBehavior' = published
          /\ account' = onChangeAccount(account, published)
          /\ calls' = [calls EXCEPT ![c] =
                          [Settle(calls[c], "resolved", "none") EXCEPT
                              !.acct = published, !.returned = published,
                              !.nexts = calls[c].nexts + 1]]
    /\ UNCHANGED <<keyPair, clientData, origin, ivCounter, started>>

\* unsubscribe that publishes an empty account once the authority has deleted the user
unsubscribeReplyPublishes(c) ==
    /\ At(c, "unsubscribe", "repo")
    /\ \E found \in BOOLEAN :
          /\ calls' = [calls EXCEPT ![c] =
                          IF found
                          THEN [Settle(calls[c], "resolved", "none") EXCEPT
                                   !.returned = calls[c].acct,
                                   !.nexts = calls[c].nexts + 1]
                          ELSE Settle(calls[c], "rejected", "NotFoundError")]
          /\ authAccountBehavior' = IF found THEN EmptyAccount ELSE authAccountBehavior
          /\ account' = IF found THEN onChangeAccount(account, EmptyAccount) ELSE account
    /\ UNCHANGED <<keyPair, clientData, origin, ivCounter, started>>

\* the authority answers accountRepository.unsubscribe(account)
unsubscribeReply(c) ==
    /\ At(c, "unsubscribe", "repo")
    /\ \E found \in BOOLEAN :
          calls' = [calls EXCEPT ![c] =
                       IF found
                       THEN [Settle(calls[c], "resolved", "none") EXCEPT
                                !.returned = calls[c].acct]
                       ELSE Settle(calls[c], "rejected", "NotFoundError")]
    /\ UNCHANGED <<keyPair, authAccountBehavior, account, clientData, origin, ivCounter,
                   started>>

\* ------------------------------------------------------------------ ProfileManager
\* getData(): this.getRawData(this.account.publicKey) is sent
getData(c) ==
    /\ Idle(c)
    /\ calls' = [calls EXCEPT ![c] =
                    [IdleCall EXCEPT !.op = "getData", !.pc = "fetch",
                                     !.pk = account.publicKey]]
    /\ started' = started + 1
    /\ UNCHANGED <<keyPair, authAccountBehavior, account, clientData, origin, ivCounter>>

\* getData that writes the decrypted Map back to the store
getDataThenWritesBack(c) ==
    /\ At(c, "getData", "fetch")
    /\ \E reachable \in BOOLEAN :
          LET data == clientData[calls[c].pk]
              r == prepareData(data, FALSE, keyPair, 0)
              seen == [calls[c] EXCEPT !.raw = data, !.src = origin[calls[c].pk],
                                       !.key = keyPair]
          IN /\ calls' = [calls EXCEPT ![c] =
                   IF ~reachable THEN Settle(calls[c], "rejected", "StoreError")
                   ELSE IF r.ok THEN [Settle(seen, "resolved", "none") EXCEPT !.result = r.map]
                   ELSE Settle(seen, "rejected", r.error)]
             /\ clientData' = IF reachable /\ r.ok
                              THEN [clientData EXCEPT ![calls[c].pk] = r.map]
                              ELSE clientData
    /\ UNCHANGED <<keyPair, authAccountBehavior, account, origin, ivCounter, started>>

\* the store answers; .then(data => this.prepareData(data, false))
getDataThen(c) ==
    /\ At(c, "getData", "fetch")
    /\ \E reachable \in BOOLEAN :
          LET data == clientData[calls[c].pk]
              r == prepareData(data, FALSE, keyPair, 0)
              seen == [calls[c] EXCEPT !.raw = data, !.src = origin[calls[c].pk],
                                       !.key = keyPair]
          IN calls' = [calls EXCEPT ![c] =
                IF ~reachable THEN Settle(calls[c], "rejected", "StoreError")
                ELSE IF r.ok THEN [Settle(seen, "resolved", "none") EXCEPT !.result = r.map]
                ELSE Settle(seen, "rejected", r.error)]
    /\ UNCHANGED <<keyPair, authAccountBehavior, account, clientData, origin, ivCounter,
                   started>>

\* getRawData(anyPublicKey): clientDataRepository.getData(anyPublicKey) is sent
getRawData(c) ==
    /\ Idle(c)
    /\ \E anyPublicKey \in PublicKeys :
          calls' = [calls EXCEPT ![c] =
                       [IdleCall EXCEPT !.op = "getRawData", !.pc = "fetch",
                                        !.pk = anyPublicKey]]
    /\ started' = started + 1
    /\ UNCHANGED <<keyPair, authAccountBehavior, account, clientData, origin, ivCounter>>

\* the store answers getRawData
getRawDataReply(c) ==
    /\ At(c, "getRawData", "fetch")
    /\ \E reachable \in BOOLEAN :
          calls' = [calls EXCEPT ![c] =
                IF reachable
                THEN [Settle(calls[c], "resolved", "none") EXCEPT
                         !.raw = clientData[calls[c].pk],
                         !.result = clientData[calls[c].pk]]
                ELSE Settle(calls[c], "rejected", "StoreError")]
    /\ UNCHANGED <<keyPair, authAccountBehavior, account, clientData, origin, ivCounter,
                   started>>

\* getAuthorizedData(recipientPk, encryptedData): the Promise executor up to the
\* getRawData call; an exception in the executor rejects the promise
getAuthorizedData(c) ==
    /\ Idle(c)
    /\ \E recipientPk \in PublicKeys, encryptedData \in Envelopes :
          LET strDecrypt == decryptMessage(keyPair, encryptedData)
              begun == [IdleCall EXCEPT !.op = "getAuthorizedData", !.pk = recipientPk,
                                        !.envTo = encryptedData.to, !.key = keyPair]
          IN calls' = [calls EXCEPT ![c] =
                IF strDecrypt.ok
                THEN [begun EXCEPT !.pc = "fetch", !.data = strDecrypt.val]
                ELSE Settle(begun, "rejected", "DecryptionError")]
    /\ started' = started + 1
    /\ UNCHANGED <<keyPair, authAccountBehavior, account, clientData, origin, ivCounter>>

\* the store answers; the handler given to getRawData(recipientPk).then decrypts field
\* by field and resolves. That .then has no rejection handler and the executor was
\* given no reject: when the store fails the outer promise is never settled.
getAuthorizedDataThen(c) ==
    /\ At(c, "getAuthorizedData", "fetch")
    /\ \E reachable \in BOOLEAN :
          LET recipientData == clientData[calls[c].pk]
          IN calls' = [calls EXCEPT ![c] =
                IF reachable
                THEN [Settle(calls[c], "resolved", "none") EXCEPT
                         !.raw = recipientData, !.src = origin[calls[c].pk],
                         !.result = authorizedLoop(calls[c].data, recipientData, 1,
                                                   EmptyMap)]
                ELSE [calls[c] EXCEPT !.pc = "orphaned", !.error = "StoreError"]]
    /\ UNCHANGED <<keyPair, authAccountBehavior, account, clientData, origin, ivCounter,
                   started>>

\* updateData(data): this.prepareData(data, true) runs in the Promise executor
updateData(c) ==
    /\ Idle(c)
    /\ \E data \in ClearVaults :
          LET r == prepareData(data, TRUE, keyPair, ivCounter + 1)
              begun == [IdleCall EXCEPT !.op = "updateData", !.data = data,
                                        !.key = keyPair]
          IN /\ calls' = [calls EXCEPT ![c] =
                   IF r.ok THEN [begun EXCEPT !.pc = "write", !.raw = r.map]
                   ELSE Settle(begun, "rejected", r.error)]
             /\ ivCounter' = IF r.ok /\ r.map # EmptyMap THEN ivCounter + 1 ELSE ivCounter
    /\ started' = started + 1
    /\ UNCHANGED <<keyPair, authAccountBehavior, account, clientData, origin>>

\* a store that sets the fields it is given and keeps the other fields it holds
RECURSIVE MergeInto(_, _, _)
MergeInto(held, given, i) ==
    IF i > Len(given) THEN held
    ELSE MergeInto(MapSet(held, given[i][1], given[i][2]), given, i + 1)

\* updateData against a store that merges field by field
updateDataThenMerging(c) ==
    /\ At(c, "updateData", "write")
    /\ \E reachable \in BOOLEAN :
          LET pk == account.publicKey
          IN IF reachable
             THEN /\ clientData' = [clientData EXCEPT
                                       ![pk] = MergeInto(clientData[pk], calls[c].raw, 1)]
                  /\ origin' = [origin EXCEPT ![pk] = calls[c].data]
                  /\ calls' = [calls EXCEPT ![c] =
                        [Settle(calls[c], "resolved", "none") EXCEPT
                            !.pk = pk, !.result = calls[c].raw,
                            !.writes = calls[c].writes + 1]]
             ELSE /\ calls' = [calls EXCEPT ![c] =
                        [Settle(calls[c], "rejected", "StoreError") EXCEPT !.pk = pk]]
                  /\ UNCHANGED <<clientData, origin>>
    /\ UNCHANGED <<keyPair, authAccountBehavior, account, ivCounter, started>>

\* updateData that resolves with the Map it was given instead of the store's answer
updateDataThenReturnsInput(c) ==
    /\ At(c, "updateData", "write")
    /\ \E reachable \in BOOLEAN :
          LET pk == account.publicKey
          IN IF reachable
             THEN /\ clientData' = [clientData EXCEPT ![pk] = calls[c].raw]
                  /\ origin' = [origin EXCEPT ![pk] = calls[c].data]
                  /\ calls' = [calls EXCEPT ![c] =
                        [Settle(calls[c], "resolved", "none") EXCEPT
                            !.pk = pk, !.result = calls[c].data,
                            !.writes = calls[c].writes + 1]]
             ELSE /\ calls' = [calls EXCEPT ![c] =
                        [Settle(calls[c], "rejected", "StoreError") EXCEPT !.pk = pk]]
                  /\ UNCHANGED <<clientData, origin>>
    /\ UNCHANGED <<keyPair, authAccountBehavior, account, ivCounter, started>>

\* .then(encrypted => this.clientDataRepository.updateData(this.account.publicKey,
\* encrypted)): the public key is read now; the store writes and echoes the Map
updateDataThen(c) ==
    /\ At(c, "updateData", "write")
    /\ \E reachable \in BOOLEAN :
          LET pk == account.publicKey
          IN IF reachable
             THEN /\ clientData' = [clientData EXCEPT ![pk] = calls[c].raw]
                  /\ origin' = [origin EXCEPT ![pk] = calls[c].data]
                  /\ calls' = [calls EXCEPT ![c] =
                        [Settle(calls[c], "resolved", "none") EXCEPT
                            !.pk = pk, !.result = calls[c].raw,
                            !.writes = calls[c].writes + 1]]
             ELSE /\ calls' = [calls EXCEPT ![c] =
                        [Settle(calls[c], "rejected", "StoreError") EXCEPT !.pk = pk]]
                  /\ UNCHANGED <<clientData, origin>>
    /\ UNCHANGED <<keyPair, authAccountBehavior, account, ivCounter, started>>

\* the caller has taken the outcome of a settled call
Return(c) ==
    /\ calls[c].pc = "done"
    /\ calls' = [calls EXCEPT ![c] = IdleCall]
    /\ UNCHANGED <<keyPair, authAccountBehavior, account, clientData, origin, ivCounter,
                   started>>

Next ==
    \E c \in Calls :
        \/ registration(c) \/ registrationReply(c)
        \/ checkAccount(c) \/ getAccount(c)
        \/ onGetAccountThen(c)
        \/ unsubscribe(c) \/ unsubscribeReply(c)
        \/ getData(c) \/ getDataThen(c)
        \/ getRawData(c) \/ getRawDataReply(c)
        \/ getAuthorizedData(c) \/ getAuthorizedDataThen(c)
        \/ updateData(c) \/ updateDataThen(c)
        \/ Return(c)

Spec == Init /\ [][Next]_vars

\* ------------------------------------------------------------------ properties
Settled(c, op) == calls[c].op = op /\ calls[c].pc = "done"
Resolved(c, op) == Settled(c, op) /\ calls[c].status = "resolved"
Rejected(c, op) == Settled(c, op) /\ calls[c].status = "rejected"

OwnerOf(pk) == CHOOSE p \in Phrases : PublicKey(p) = pk
MapFun(m) == [k \in MapKeys(m) |-> MapGet(m, k)]
Opens(pass, c) == decryptAes256(c, pass).ok

\* a cleartext Map as the vault it denotes: names lowercased, and of the entries whose
\* names differ only in case the last one
Normalized(F) ==
    [k \in {Lower(F[i][1]) : i \in 1..Len(F)} |->
        F[CHOOSE i \in 1..Len(F) :
              /\ Lower(F[i][1]) = k
              /\ \A j \in 1..Len(F) : Lower(F[j][1]) = k => j <= i][2]]

\* the envelope's payload holds, for each of its names, the owner's password for it
CarriesPasswordsOf(owner, payload) ==
    \A i \in 1..Len(payload) :
        payload[i][2] = generatePasswordForFiled(owner, payload[i][1]).val

\* every field of the raw vault is encrypted under the owner's password for its name
EncryptedBy(owner, raw) ==
    \A i \in 1..Len(raw) :
        Opens(generatePasswordForFiled(owner, raw[i][1]).val, raw[i][2])

\* C1: a getAuthorizedData call that resolves, given an envelope with the owner's
\* passwords for the names S and the owner's vault encrypted under the owner's
\* passwords, returns exactly the names of S that the raw vault holds, each with the
\* cleartext the owner stored; no other field of the raw vault appears.
C1_SelectiveDisclosure ==
    \A c \in Calls :
        ( /\ Resolved(c, "getAuthorizedData")
          /\ CarriesPasswordsOf(OwnerOf(calls[c].pk), calls[c].data)
          /\ EncryptedBy(OwnerOf(calls[c].pk), calls[c].raw) )
        => /\ MapKeys(calls[c].result) = MapKeys(calls[c].data) \cap MapKeys(calls[c].raw)
           /\ \A k \in MapKeys(calls[c].result) :
                 MapGet(calls[c].result, k) = Normalized(calls[c].src)[k]

\* C1 happens: some disclosed names are stored and returned, some are not stored, and
\* some stored fields are not disclosed
C1_Witness ==
    \E c \in Calls :
        /\ Resolved(c, "getAuthorizedData")
        /\ CarriesPasswordsOf(OwnerOf(calls[c].pk), calls[c].data)
        /\ EncryptedBy(OwnerOf(calls[c].pk), calls[c].raw)
        /\ calls[c].result # EmptyMap
        /\ MapKeys(calls[c].raw) \ MapKeys(calls[c].data) # {}
        /\ MapKeys(calls[c].data) \ MapKeys(calls[c].raw) # {}

C3_CaseInsensitive ==
    \A c \in Calls :
        Resolved(c, "getData") =>
            \A i \in 1..Len(calls[c].src) :
                LET name == calls[c].src[i][1]
                IN ( /\ Lower(name) # name
                     /\ \A j \in 1..Len(calls[c].src) :
                           j # i => Lower(calls[c].src[j][1]) # Lower(name) )
                   => /\ MapHas(calls[c].result, Lower(name))
                      /\ MapGet(calls[c].result, Lower(name)) = calls[c].src[i][2]
                      /\ ~MapHas(calls[c].result, name)
                      /\ MapHas(calls[c].raw, Lower(name))
                      /\ MapGet(calls[c].raw, Lower(name)).field = Lower(name)

\* C3 happens: updateData({"Name": "x"}) was read back
C3_Witness ==
    \E c \in Calls :
        /\ Resolved(c, "getData")
        /\ calls[c].src = <<<<"Name", Clear("x")>>>>
        /\ MapGet(calls[c].result, "name") = Clear("x")

\* C4: getAuthorizedData is rejected only when the envelope itself cannot be opened;
\* when it resolves, every name in both the envelope and the raw vault whose stored
\* value opens with the disclosed password is returned with its cleartext, and every
\* such name whose stored value does not open is absent.
C4_GracefulDegradation ==
    \A c \in Calls :
        /\ Rejected(c, "getAuthorizedData") =>
              /\ calls[c].error = "DecryptionError"
              /\ calls[c].envTo # PublicKey(calls[c].key)
        /\ Resolved(c, "getAuthorizedData") =>
              \A k \in MapKeys(calls[c].data) \cap MapKeys(calls[c].raw) :
                  IF Opens(MapGet(calls[c].data, k), MapGet(calls[c].raw, k))
                  THEN /\ MapHas(calls[c].result, k)
                       /\ MapGet(calls[c].result, k) = Clear(MapGet(calls[c].raw, k).val)
                  ELSE ~MapHas(calls[c].result, k)

\* C4 happens: one disclosed field did not open and another was returned
C4_Witness ==
    \E c \in Calls :
        /\ Resolved(c, "getAuthorizedData")
        /\ \E k1, k2 \in MapKeys(calls[c].data) \cap MapKeys(calls[c].raw) :
              /\ ~Opens(MapGet(calls[c].data, k1), MapGet(calls[c].raw, k1))
              /\ Opens(MapGet(calls[c].data, k2), MapGet(calls[c].raw, k2))
              /\ MapHas(calls[c].result, k2)

\* C5 as stated: a getAuthorizedData call that has not settled can still take the
\* step that settles it (it never stays pending for good), also when the store failed
C5_Settles ==
    \A c \in Calls :
        calls[c].op = "getAuthorizedData" =>
            \/ calls[c].pc = "done"
            \/ ~NoneSettled
            \/ ENABLED getAuthorizedDataThen(c)

\* C6 as stated: the Map that a resolved updateData stored under an identity's public
\* key is encrypted under passwords of that identity's key pair
C6_OwnPasswords ==
    \A c \in Calls :
        (Resolved(c, "updateData") /\ calls[c].pk \in PublicKeys) =>
            \A i \in 1..Len(calls[c].result) :
                PublicKey(calls[c].result[i][2].key) = calls[c].pk

IdentityCall(call) == call.op \in {"registration", "checkAccount"}

\* C7: the step that resolves a registration or checkAccount call is its only
\* notification and publishes the account it returns (the call's public key and
\* message, nothing kept from the previous account); the subject's value and
\* ProfileManager.account change in no other step.
C7_PublishesReturned ==
    [][ /\ \A c \in Calls :
              ( /\ calls[c].pc # "done"
                /\ calls'[c].pc = "done"
                /\ IdentityCall(calls'[c])
                /\ calls'[c].status = "resolved" )
              => /\ calls'[c].nexts = 1
                 /\ authAccountBehavior' = calls'[c].returned
                 /\ account' = calls'[c].returned
                 /\ calls'[c].returned.publicKey = PublicKey(calls[c].phrase)
                 /\ calls'[c].returned.message = calls[c].message
        /\ (account' # account \/ authAccountBehavior' # authAccountBehavior)
              => \E c \in Calls :
                    /\ calls[c].pc # "done"
                    /\ calls'[c].pc = "done"
                    /\ IdentityCall(calls'[c])
                    /\ calls'[c].status = "resolved" ]_vars

\* C7 happens: a checkAccount made after another call has resolved and its account is
\* the current one
C7_Witness ==
    \E c \in Calls :
        /\ Resolved(c, "checkAccount")
        /\ started >= 2
        /\ account = calls[c].returned
        /\ account.publicKey = PublicKey(calls[c].phrase)

\* C8: the step that rejects a registration or checkAccount call leaves the subject's
\* value and ProfileManager.account as they were; the call has published nothing,
\* returns no account and carries the error of the authority or of the signer.
C8_FailureKeepsIdentity ==
    [][ \A c \in Calls :
            ( /\ calls[c].pc # "done"
              /\ calls'[c].pc = "done"
              /\ IdentityCall(calls'[c])
              /\ calls'[c].status = "rejected" )
            => /\ account' = account
               /\ authAccountBehavior' = authAccountBehavior
               /\ calls'[c].nexts = 0
               /\ calls'[c].returned = EmptyAccount
               /\ calls'[c].error \in {"RegistrationError", "NotFoundError", "SignError"}
      ]_vars

\* C8 happens: a checkAccount for another phrase was rejected while an identity is
\* current
C8_Witness ==
    \E c \in Calls :
        /\ Rejected(c, "checkAccount")
        /\ account.publicKey \in PublicKeys
        /\ account.publicKey # PublicKey(calls[c].phrase)

\* C9 as stated: a getAuthorizedData call made while an identity is current, with an
\* envelope addressed to another identity, is rejected with the decryption error
\* before it reads any vault
C9_OtherIdentity ==
    [][ \A c \in Calls :
            ( /\ calls[c].pc = "idle"
              /\ calls'[c].op = "getAuthorizedData"
              /\ account.publicKey \in PublicKeys
              /\ calls'[c].envTo # account.publicKey )
            => /\ calls'[c].pc = "done"
               /\ calls'[c].status = "rejected"
               /\ calls'[c].error = "DecryptionError" ]_vars

\* what holds instead: the envelope is refused when it is not addressed to the key
\* pair the helper holds, whichever account is current
WrongKeyPairRejected ==
    \A c \in Calls :
        (calls[c].op = "getAuthorizedData" /\ calls[c].envTo # PublicKey(calls[c].key))
        => /\ Rejected(c, "getAuthorizedData")
           /\ calls[c].error = "DecryptionError"
           /\ calls[c].result = EmptyMap
           /\ calls[c].raw = EmptyMap

OnlyCiphertext(m) ==
    \A i \in 1..Len(m) : Lower(m[i][1]) = m[i][1] /\ m[i][2].kind = "cipher"

\* C10: every Map the store holds, and every Map an updateData call is about to send,
\* has lowercase names and ciphertext values only; every key of a request is a public
\* key string.
C10_OnlyCiphertext ==
    /\ \A pk \in StoreKeys : OnlyCiphertext(clientData[pk])
    /\ \A c \in Calls :
          /\ calls[c].pc = "write" => OnlyCiphertext(calls[c].raw)
          /\ calls[c].pc \in {"fetch", "write"} => calls[c].pk \in StoreKeys

\* C10 happens: the store holds a Map written by updateData from an input that had a
\* name with an uppercase letter
C10_Witness ==
    \E pk \in StoreKeys :
        /\ clientData[pk] # EmptyMap
        /\ \E i \in 1..Len(clientData[pk]) : clientData[pk][i][2].iv > 0
        /\ \E j \in 1..Len(origin[pk]) : Lower(origin[pk][j][1]) # origin[pk][j][1]

\* raw holds, under the lowercased name of every field of data, a ciphertext of the
\* value given for it (the last one given, when a name is given twice), and nothing else
Complete(data, raw) ==
    /\ MapKeys(raw) = {Lower(data[i][1]) : i \in 1..Len(data)}
    /\ \A k \in MapKeys(raw) :
          /\ MapGet(raw, k).kind = "cipher"
          /\ MapGet(raw, k).val = Normalized(data)[k].val

UpdateSettles(c) ==
    /\ calls[c].pc # "done"
    /\ calls'[c].pc = "done"
    /\ calls'[c].op = "updateData"

\* C11: an updateData call that resolves made one store write, in its last step, of a
\* Map prepared before that step with a ciphertext for every field of the input; an
\* updateData call that is rejected made no write and its rejecting step left the
\* store as it was; the store changes in no step but the write of a resolving
\* updateData.
C11_AllOrNothing ==
    [][ /\ \A c \in Calls :
              UpdateSettles(c) =>
                 IF calls'[c].status = "resolved"
                 THEN /\ calls[c].pc = "write"
                      /\ Complete(calls[c].data, calls[c].raw)
                      /\ calls'[c].writes = 1
                      /\ clientData' = [clientData EXCEPT ![calls'[c].pk] = calls[c].raw]
                 ELSE /\ calls'[c].writes = 0
                      /\ clientData' = clientData
        /\ clientData' # clientData
              => \E c \in Calls : UpdateSettles(c) /\ calls'[c].status = "resolved" ]_vars

\* C11 happens: an updateData of two fields failed in the password derivation while
\* the store held a vault
C11_Witness ==
    \E c \in Calls :
        /\ Rejected(c, "updateData")
        /\ calls[c].error = "DerivationError"
        /\ Len(calls[c].data) = 2
        /\ calls[c].writes = 0
        /\ clientData[PublicKey(StoredOwner)] # EmptyMap

\* C12: the Map the store holds under a public key is always one whole Map prepared by
\* one updateData call (every ciphertext in it carries that call's salt and it has
\* exactly the fields of that call's input), never a mixture of the Maps of two
\* calls; right after an updateData call has resolved it is that call's Map.
C12_LastWriteWins ==
    /\ \A pk \in StoreKeys :
          /\ Complete(origin[pk], clientData[pk])
          /\ \A i, j \in 1..Len(clientData[pk]) :
                clientData[pk][i][2].iv = clientData[pk][j][2].iv
    /\ \A c \in Calls :
          Resolved(c, "updateData") => clientData[calls[c].pk] = calls[c].raw

\* C12 happens: two updateData calls of the same identity have both completed; the one
\* that was prepared first wrote last, while the other was in flight, and the store
\* holds its Map
C12_Witness ==
    \E c \in Calls :
        /\ Resolved(c, "updateData")
        /\ \A d \in Calls : d # c => calls[d].pc = "idle"
        /\ started = 3
        /\ ivCounter = 2
        /\ Len(calls[c].raw) = 2
        /\ calls[c].raw[1][2].iv = 1
        /\ account.publicKey \in PublicKeys
        /\ account.publicKey = PublicKey(keyPair)
        /\ calls[c].pk = account.publicKey

\* some field of raw does not open with the password derived for its name from key
\* pair kp
FailsToDecrypt(kp, raw) ==
    \E i \in 1..Len(raw) : ~Opens(generatePasswordForFiled(kp, raw[i][1]).val, raw[i][2])

\* C13: a getData call that got the raw vault from the store is rejected, with the
\* decryption error (the derivation error when the helper holds no key pair) and no
\* result, whenever some field does not open with the password derived for it; it
\* resolves only when every field opens, and then with every field of the raw vault
\* and its cleartext.
C13_DecryptFailurePropagates ==
    \A c \in Calls :
        (Settled(c, "getData") /\ calls[c].error # "StoreError") =>
            IF FailsToDecrypt(calls[c].key, calls[c].raw)
            THEN /\ calls[c].status = "rejected"
                 /\ calls[c].result = EmptyMap
                 /\ calls[c].error =
                       IF calls[c].key = NoKey THEN "DerivationError" ELSE "DecryptionError"
            ELSE /\ calls[c].status = "resolved"
                 /\ MapKeys(calls[c].result) = MapKeys(calls[c].raw)
                 /\ \A k \in MapKeys(calls[c].raw) :
                       MapGet(calls[c].result, k) = Clear(MapGet(calls[c].raw, k).val)

\* C13 happens: getData found a vault of two fields that did not open and was rejected
\* with the decryption error
C13_Witness ==
    \E c \in Calls :
        /\ Rejected(c, "getData")
        /\ calls[c].error = "DecryptionError"
        /\ Len(calls[c].raw) = 2
        /\ calls[c].key # NoKey

\* C14: the Map an updateData call resolves with is the Map the store holds under the
\* public key it wrote to, and a getRawData call resolves with the Map the store
\* holds under the key asked for: with no write in between the two are equal.
C14_ReturnsStored ==
    \A c \in Calls :
        /\ Resolved(c, "updateData") => calls[c].result = clientData[calls[c].pk]
        /\ Resolved(c, "getRawData") => calls[c].result = clientData[calls[c].pk]

\* C14 happens: getRawData for the current public key returned a vault that an
\* updateData call of this identity wrote
C14_Witness ==
    \E c \in Calls :
        /\ Resolved(c, "getRawData")
        /\ calls[c].pk = account.publicKey
        /\ Len(calls[c].result) = 2
        /\ calls[c].result[1][2].iv > 0

\* Maps a and b have the same fields; in every field the two ciphertexts differ and
\* both open, with the password of key pair kp for the field, to the same cleartext
FreshCiphertexts(kp, a, b) ==
    /\ MapKeys(a) = MapKeys(b)
    /\ \A k \in MapKeys(a) :
          LET pass == generatePasswordForFiled(kp, k).val
          IN /\ MapGet(a, k) # MapGet(b, k)
             /\ decryptAes256(MapGet(a, k), pass).ok
             /\ decryptAes256(MapGet(b, k), pass) = decryptAes256(MapGet(a, k), pass)

\* C15: the Map an updateData call has prepared differs in every field's ciphertext
\* from the Map prepared by another call from the same cleartext Map under the same
\* key pair, be that Map the one the store holds or the one of a call in flight, and
\* both decrypt to the same cleartext.
C15_FreshCiphertext ==
    \A c \in Calls :
        (calls[c].op = "updateData" /\ calls[c].pc = "write") =>
            /\ \A pk \in StoreKeys :
                  (origin[pk] = calls[c].data /\ EncryptedBy(calls[c].key, clientData[pk]))
                  => FreshCiphertexts(calls[c].key, calls[c].raw, clientData[pk])
            /\ \A d \in Calls :
                  ( /\ d # c
                    /\ calls[d].op = "updateData"
                    /\ calls[d].pc = "write"
                    /\ calls[d].data = calls[c].data
                    /\ calls[d].key = calls[c].key )
                  => FreshCiphertexts(calls[c].key, calls[c].raw, calls[d].raw)

\* C15 happens: the current identity has stored a vault of two fields and has prepared
\* a second update from the same cleartext
C15_Witness ==
    \E c \in Calls :
        /\ calls[c].op = "updateData"
        /\ calls[c].pc = "write"
        /\ account.publicKey = PublicKey(calls[c].key)
        /\ origin[account.publicKey] = calls[c].data
        /\ Len(calls[c].data) = 2
        /\ Len(clientData[account.publicKey]) = 2
        /\ clientData[account.publicKey][1][2].iv > 0

\* C16 as stated: the account a registration or checkAccount call resolves with, and
\* publishes, carries the call's message and a signature of it made with the key pair
\* of the call's own phrase
C16_SignedByOwnKey ==
    \A c \in Calls :
        (IdentityCall(calls[c]) /\ Resolved(c, calls[c].op)) =>
            /\ calls[c].returned.message = calls[c].message
            /\ calls[c].returned.sig = Signature(calls[c].phrase, calls[c].message)
            /\ calls[c].returned.publicKey = PublicKey(calls[c].returned.sig.by)

\* C17 as stated: while no registration, checkAccount or unsubscribe call is in
\* flight and an identity is current, the key pair from which prepareData derives the
\* passwords is the one of the current identity
C17_KeyOfCurrentIdentity ==
    ( /\ \A c \in Calls : calls[c].pc \notin {"repo", "publish"}
      /\ account.publicKey \in PublicKeys )
    => account.publicKey = PublicKey(keyPair)

\* C18: ProfileManager.account is the value of the subject, i.e. the last account
\* published (the initial one before any publication); the public key an updateData
\* call has just written under is the one of that account.
C18_HoldsLatestPublished ==
    /\ account = authAccountBehavior
    /\ \A c \in Calls :
          Resolved(c, "updateData") => calls[c].pk = authAccountBehavior.publicKey

\* C18 happens: an updateData call prepared under one identity wrote after another
\* identity had been published, under the public key of the newer one
C18_Witness ==
    \E c \in Calls :
        /\ Resolved(c, "updateData")
        /\ account.publicKey \in PublicKeys
        /\ account.publicKey = PublicKey(keyPair)
        /\ calls[c].pk = account.publicKey
        /\ calls[c].key \in Phrases
        /\ calls[c].key # keyPair

\* every name of m is lowercase and no two entries of m have the same name
LowercaseOnce(m) ==
    /\ \A i \in 1..Len(m) : Lower(m[i][1]) = m[i][1]
    /\ \A i, j \in 1..Len(m) : m[i][1] = m[j][1] => i = j

\* C19: the Map an updateData call has prepared for the store, and the Map a getData
\* call resolves with, have lowercase names and one entry per name; the prepared Map
\* has as many entries as the input has names that differ other than in case.
C19_LowercaseOnePerName ==
    \A c \in Calls :
        /\ (calls[c].op = "updateData" /\ (calls[c].pc = "write" \/ Resolved(c, "updateData")))
           => /\ LowercaseOnce(calls[c].raw)
              /\ Len(calls[c].raw) =
                    Cardinality({Lower(calls[c].data[i][1]) : i \in 1..Len(calls[c].data)})
        /\ Resolved(c, "getData") => LowercaseOnce(calls[c].result)

\* C19 happens: an input with two names that differ only in case was prepared as a
\* Map of one field and stored
C19_Witness ==
    \E c \in Calls :
        /\ Resolved(c, "updateData")
        /\ Len(calls[c].data) = 2
        /\ Len(calls[c].raw) = 1
        /\ clientData[calls[c].pk] = calls[c].raw

\* C20 as stated: a getAuthorizedData call that resolves returns, under the lowercased
\* name, every field whose envelope name, lowercased, is a field of the raw vault that
\* opens with the disclosed password; the names it returns are lowercase
C20_EnvelopeNamesLowercased ==
    \A c \in Calls :
        Resolved(c, "getAuthorizedData") =>
            /\ \A i \in 1..Len(calls[c].result) :
                  Lower(calls[c].result[i][1]) = calls[c].result[i][1]
            /\ \A i \in 1..Len(calls[c].data) :
                  LET name == Lower(calls[c].data[i][1])
                      pass == calls[c].data[i][2]
                  IN ( /\ MapHas(calls[c].raw, name)
                       /\ Opens(pass, MapGet(calls[c].raw, name))
                       /\ \A j \in 1..Len(calls[c].data) :
                             j # i => Lower(calls[c].data[j][1]) # name )
                     => /\ MapHas(calls[c].result, name)
                        /\ MapGet(calls[c].result, name) =
                              Clear(MapGet(calls[c].raw, name).val)

\* call c takes the step, as the call that op names is or becomes
StepOf(c, ops) ==
    /\ calls'[c] # calls[c]
    /\ calls[c].op \in ops \/ calls'[c].op \in ops

\* C21: no step of an unsubscribe call, from its start to its outcome, changes the
\* subject's value or ProfileManager.account or counts as a notification; when the
\* authority reports no account the call is rejected with that error, and otherwise
\* it resolves with the account of the phrase given.
C21_UnsubscribePublishesNothing ==
    [][ \A c \in Calls :
            StepOf(c, {"unsubscribe"}) =>
               /\ authAccountBehavior' = authAccountBehavior
               /\ account' = account
               /\ calls'[c].nexts = 0
               /\ (calls'[c].pc = "done" /\ calls'[c].status = "rejected")
                     => calls'[c].error = "NotFoundError"
               /\ (calls'[c].pc = "done" /\ calls'[c].status = "resolved")
                     => calls'[c].returned = Account(PublicKey(calls[c].phrase)) ]_vars

\* C21 happens: the current identity has unsubscribed itself and is still current
C21_Witness ==
    \E c \in Calls :
        /\ Resolved(c, "unsubscribe")
        /\ account.publicKey \in PublicKeys
        /\ account.publicKey = PublicKey(calls[c].phrase)
        /\ authAccountBehavior = account
        /\ calls[c].nexts = 0

ReadOps == {"getData", "getRawData", "getAuthorizedData"}

\* C22: no step of a getData, getRawData or getAuthorizedData call, from its start to
\* its outcome, changes the Map the store holds under any public key, the subject's
\* value or ProfileManager.account; such a call makes no store write.
C22_ReadsChangeNothing ==
    [][ \A c \in Calls :
            StepOf(c, ReadOps) =>
               /\ clientData' = clientData
               /\ authAccountBehavior' = authAccountBehavior
               /\ account' = account
               /\ calls'[c].writes = 0 ]_vars

\* C22 happens: an identity is current, the store holds vaults, and a getData call has
\* read and decrypted the identity's own vault
C22_Witness ==
    \E c \in Calls :
        /\ Resolved(c, "getData")
        /\ account.publicKey \in PublicKeys
        /\ calls[c].pk = account.publicKey
        /\ calls[c].result # EmptyMap
        /\ calls[c].writes = 0
        /\ clientData[calls[c].pk] = calls[c].raw

====
